---- MODULE Spec2Model ----
(***************************************************************************)
(* The HTTP gateway of yahoo-finance/src/server_http.py: five routes, of   *)
(* which four delegate to an awaited provider operation.  The event loop   *)
(* runs one task at a time between suspension points, so every action      *)
(* below is the code a task runs from one suspension point to the next.    *)
(***************************************************************************)
EXTENDS Integers, Sequences, FiniteSets, TLC

\* Number of requests the model lets be in flight together.
MaxRequests == 2

Reqs == 1..MaxRequests

(***************************************************************************)
(* State.  Each request r is served by its own task:                       *)
(*   pc[r]      where the task is: idle, awaiting (suspended on the        *)
(*              provider call), ready (the call has completed, the task    *)
(*              is runnable), done (response sent);                        *)
(*   req[r]     the request; calls[r] the provider calls the task issued;  *)
(*   outcome[r] what the task's provider call produced;                    *)
(*   resp[r]    the response sent; log the error events emitted.           *)
(***************************************************************************)
VARIABLES pc, req, calls, outcome, resp, log

vars == <<pc, req, calls, outcome, resp, log>>

(***************************************************************************)
(* JSON values (what json.loads builds and what the framework serializes). *)
(***************************************************************************)
Jnull == [type |-> "null"]
Jstr(s) == [type |-> "string", s |-> s]
Jnum(lit) == [type |-> "number", lit |-> lit]
Jarr(items) == [type |-> "array", items |-> items]
Jobj(members) == [type |-> "object", members |-> members]

\* A Python str holding JSON is modelled by its sequence of lexemes.
Punct(c) == [lex |-> "punct", lit |-> c]
StrTok(s) == [lex |-> "string", lit |-> s]
NumTok(n) == [lex |-> "number", lit |-> n]
NullTok == [lex |-> "null", lit |-> "null"]
Junk(w) == [lex |-> "junk", lit |-> w]

\* The characters of the Python str a lexeme sequence stands for.
RECURSIVE TextOf(_)
TextOf(toks) ==
    IF toks = <<>> THEN ""
    ELSE LET t == Head(toks)
             lit == IF t.lex = "string" THEN "\"" \o t.lit \o "\"" ELSE t.lit
         IN lit \o TextOf(Tail(toks))

\* dict[key] = value: a repeated key keeps its place and takes the last value.
RECURSIVE DictSet(_, _, _)
DictSet(members, key, val) ==
    IF members = <<>> THEN << <<key, val>> >>
    ELSE IF Head(members)[1] = key THEN << <<key, val>> >> \o Tail(members)
    ELSE << Head(members) >> \o DictSet(Tail(members), key, val)

ParseOk(val, next) == [ok |-> TRUE, val |-> val, next |-> next, msg |-> ""]
ParseErr(msg) == [ok |-> FALSE, val |-> Jnull, next |-> 0, msg |-> msg]

IsTok(toks, i, t) == i <= Len(toks) /\ toks[i] = t

\* json.loads, by recursive descent over the lexemes: the value starting at
\* lexeme i, and the index after it.
RECURSIVE ParseValue(_, _), ParseMembers(_, _, _), ParseElements(_, _, _)
ParseValue(toks, i) ==
    IF i > Len(toks) THEN ParseErr("Expecting value")
    ELSE LET t == toks[i] IN
         CASE t.lex = "string" -> ParseOk(Jstr(t.lit), i + 1)
           [] t.lex = "number" -> ParseOk(Jnum(t.lit), i + 1)
           [] t.lex = "null" -> ParseOk(Jnull, i + 1)
           [] t = Punct("{") ->
                IF IsTok(toks, i + 1, Punct("}")) THEN ParseOk(Jobj(<<>>), i + 2)
                ELSE ParseMembers(toks, i + 1, <<>>)
           [] t = Punct("[") ->
                IF IsTok(toks, i + 1, Punct("]")) THEN ParseOk(Jarr(<<>>), i + 2)
                ELSE ParseElements(toks, i + 1, <<>>)
           [] OTHER -> ParseErr("Expecting value")

ParseMembers(toks, i, acc) ==
    IF ~(i <= Len(toks) /\ toks[i].lex = "string")
    THEN ParseErr("Expecting property name enclosed in double quotes")
    ELSE IF ~IsTok(toks, i + 1, Punct(":")) THEN ParseErr("Expecting ':' delimiter")
    ELSE LET v == ParseValue(toks, i + 2) IN
         IF ~v.ok THEN v
         ELSE LET acc2 == DictSet(acc, toks[i].lit, v.val) IN
              IF IsTok(toks, v.next, Punct("}")) THEN ParseOk(Jobj(acc2), v.next + 1)
              ELSE IF IsTok(toks, v.next, Punct(",")) THEN ParseMembers(toks, v.next + 1, acc2)
              ELSE ParseErr("Expecting ',' delimiter")

ParseElements(toks, i, acc) ==
    LET v == ParseValue(toks, i) IN
    IF ~v.ok THEN v
    ELSE LET acc2 == Append(acc, v.val) IN
         IF IsTok(toks, v.next, Punct("]")) THEN ParseOk(Jarr(acc2), v.next + 1)
         ELSE IF IsTok(toks, v.next, Punct(",")) THEN ParseElements(toks, v.next + 1, acc2)
         ELSE ParseErr("Expecting ',' delimiter")

\* json.loads(text): the value, or the JSONDecodeError it raises.
JsonLoads(text) ==
    LET v == ParseValue(text, 1) IN
    IF ~v.ok THEN v
    ELSE IF v.next <= Len(text) THEN ParseErr("Extra data")
    ELSE v

(***************************************************************************)
(* Requests as they arrive: the matched route, the path parameter and the  *)
(* raw query parameters (<<>> when absent, <<raw>> when present).  A raw   *)
(* count is its sequence of characters.                                    *)
(***************************************************************************)
Request(route, symbol, q, count, period, interval) ==
    [route |-> route, symbol |-> symbol, q |-> q, count |-> count,
     period |-> period, interval |-> interval]

NoReq == Request("none", "", <<>>, <<>>, <<>>, <<>>)

Symbols == {"aapl"}
Queries == {"apple inc"}
NewsCounts == { <<"1", "0">>, <<"-", "3">>, <<"x">> }
SearchCounts == { <<"-", "3">>, <<"x">> }
\* period and interval as sent: documented tokens, undocumented ones, absent.
PriceQueries ==
    { <<<<>>, <<>>>>, << <<"max">>, <<>> >>, << <<>>, <<"1wk">> >>,
      << <<"bogus">>, <<"1m">> >>, << <<"5d">>, <<"bogus">> >> }

Opt(S) == {<<>>} \cup { <<v>> : v \in S }

Requests ==
    {Request("health", "", <<>>, <<>>, <<>>, <<>>)}
    \cup {Request("ticker", s, <<>>, <<>>, <<>>, <<>>) : s \in Symbols}
    \cup {Request("news", s, <<>>, c, <<>>, <<>>) : s \in Symbols, c \in Opt(NewsCounts)}
    \cup {Request("search", "", q, c, <<>>, <<>>) : q \in Opt(Queries), c \in Opt(SearchCounts)}
    \cup {Request("price-history", s, <<>>, <<>>, pi[1], pi[2]) :
            s \in Symbols, pi \in PriceQueries}

StatusOK == 200
StatusUnprocessable == 422
StatusServerError == 500
DefaultCount == 10
DefaultPeriod == "1y"
DefaultInterval == "1d"

Response(status, body) == [status |-> status, body |-> body]
NoResp == Response(0, Jnull)

(***************************************************************************)
(* The routing layer: the framework binds and converts the declared        *)
(* parameters before the handler runs.                                     *)
(***************************************************************************)
DigitChars == <<"0", "1", "2", "3", "4", "5", "6", "7", "8", "9">>
IsDigit(c) == \E d \in 1..10 : DigitChars[d] = c
DigitVal(c) == (CHOOSE d \in 1..10 : DigitChars[d] = c) - 1

RECURSIVE DigitsValue(_, _)
DigitsValue(s, acc) ==
    IF s = <<>> THEN acc ELSE DigitsValue(Tail(s), acc * 10 + DigitVal(Head(s)))

\* The int conversion of a raw query value: an optional sign and digits.
ParseInt(raw) ==
    LET signed == raw # <<>> /\ Head(raw) \in {"-", "+"}
        digits == IF signed THEN Tail(raw) ELSE raw
        valid == digits # <<>> /\ \A k \in 1..Len(digits) : IsDigit(digits[k])
    IN [ok |-> valid,
        val |-> IF ~valid THEN 0
                ELSE IF Head(raw) = "-" THEN 0 - DigitsValue(digits, 0)
                ELSE DigitsValue(digits, 0)]

ErrItem(type, name) ==
    Jobj(<< <<"type", Jstr(type)>>, <<"loc", Jarr(<<Jstr("query"), Jstr(name)>>)>> >>)

\* name: int = default
BindInt(name, opt, default) ==
    IF opt = <<>> THEN [errs |-> <<>>, val |-> default]
    ELSE LET p == ParseInt(opt[1]) IN
         IF p.ok THEN [errs |-> <<>>, val |-> p.val]
         ELSE [errs |-> <<ErrItem("int_parsing", name)>>, val |-> default]

\* name: str = default
BindStr(name, opt, default) ==
    IF opt = <<>> THEN [errs |-> <<>>, val |-> default]
    ELSE [errs |-> <<>>, val |-> opt[1]]

\* name: str (no default: required)
BindRequiredStr(name, opt) ==
    IF opt = <<>> THEN [errs |-> <<ErrItem("missing", name)>>, val |-> ""]
    ELSE [errs |-> <<>>, val |-> opt[1]]

\* ValidationErrors with nothing checked: every request reaches its handler.
ValidationErrorsNone(rq) == <<>>

\* The validation errors of a request against its route's signature.
ValidationErrors(rq) ==
    CASE rq.route = "news" -> BindInt("count", rq.count, DefaultCount).errs
      [] rq.route = "search" ->
            BindRequiredStr("q", rq.q).errs \o BindInt("count", rq.count, DefaultCount).errs
      [] OTHER -> <<>>

ValidationResponse(errs) ==
    Response(StatusUnprocessable, Jobj(<< <<"detail", Jarr(errs)>> >>))

(***************************************************************************)
(* The provider (yahoo_finance_server.helper): four operations, each of    *)
(* which returns a value or raises.  Every failure it raises is an         *)
(* instance of Exception, the class the handlers catch; task cancellation  *)
(* and interpreter exit belong to process teardown and are not modelled.   *)
(***************************************************************************)
Exc(cls, status_code, msg) == [cls |-> cls, status_code |-> status_code, msg |-> msg]

\* str(e)
Str(e) ==
    IF e.cls = "HTTPException" THEN ToString(e.status_code) \o ": " \o e.msg ELSE e.msg

ProviderFailures ==
    {Exc("ValueError", 0, "No data found, symbol may be delisted"),
     Exc("HTTPException", 404, "Not Found")}

JSONDecodeError(msg) == Exc("JSONDecodeError", 0, msg)

\* Texts get_ticker_info may hand back: an object, a bare scalar, an object
\* with a colon missing and free text.
InfoObjectText ==
    <<Punct("{"), StrTok("symbol"), Punct(":"), StrTok("AAPL"), Punct(","),
      StrTok("price"), Punct(":"), NumTok("150.0"), Punct("}")>>
InfoTexts ==
    {InfoObjectText,
     <<NullTok>>,
     <<Punct("{"), StrTok("symbol"), StrTok("AAPL"), Punct("}")>>,
     <<Junk("Ticker not found")>>}

NewsValue == Jarr(<<Jobj(<< <<"title", Jstr("Apple beats estimates")>> >>)>>)
SearchValue == Jarr(<<Jobj(<< <<"symbol", Jstr("AAPL")>> >>)>>)
HistoryValue == Jobj(<< <<"Close", Jarr(<<Jnum("150.0")>>)>> >>)

ProviderOps ==
    {"get_ticker_info", "get_ticker_news", "search_yahoo_finance", "get_price_history"}

Returned(val) == [kind |-> "return", val |-> val]
Raised(e) == [kind |-> "raise", exc |-> e]
NoOutcome == [kind |-> "none"]

ProviderReturns(op) ==
    CASE op = "get_ticker_info" -> InfoTexts
      [] op = "get_ticker_news" -> {NewsValue}
      [] op = "search_yahoo_finance" -> {SearchValue}
      [] op = "get_price_history" -> {HistoryValue}

ProviderOutcomes(op) ==
    {Returned(v) : v \in ProviderReturns(op)} \cup {Raised(e) : e \in ProviderFailures}

(***************************************************************************)
(* The handlers.  Each is cut at its await: the call it issues, and what   *)
(* it does with the awaited outcome.                                       *)
(***************************************************************************)
Call(op, args) == [op |-> op, args |-> args]

\* HealthCheck with the status made to follow the provider's health.
HealthCheckUpstream ==
    IF \E o \in Reqs : outcome[o].kind = "raise"
    THEN Response(503, Jobj(<< <<"status", Jstr("degraded")>> >>))
    ELSE Response(StatusOK, Jobj(<< <<"status", Jstr("ok")>> >>))

HealthCheck == Response(StatusOK, Jobj(<< <<"status", Jstr("ok")>> >>))

\* return value: what the handler hands to the framework, and what it logged.
Return(val) == [resp |-> Response(StatusOK, val), logged |-> {}]

\* Except with an HTTPException raised inside the try block let through as it is.
ExceptPassThrough(prefix, key, e) ==
    IF e.cls = "HTTPException"
    THEN [resp |-> Response(e.status_code, Jobj(<< <<"detail", Jstr(e.msg)>> >>)),
          logged |-> {}]
    ELSE [resp |-> Response(StatusServerError, Jobj(<< <<"detail", Jstr(Str(e))>> >>)),
          logged |-> {prefix \o key \o ": " \o Str(e)}]

\* except Exception as e: logger.error(...); raise HTTPException(500, str(e))
Except(prefix, key, e) ==
    [resp |-> Response(StatusServerError, Jobj(<< <<"detail", Jstr(Str(e))>> >>)),
     logged |-> {prefix \o key \o ": " \o Str(e)}]

GetInfoCall(rq) == Call("get_ticker_info", <<rq.symbol>>)

\* GetInfoResume returning the provider's text without json.loads.
GetInfoResumeNoParse(rq, out) ==
    IF out.kind = "raise" THEN Except("Error fetching info for ", rq.symbol, out.exc)
    ELSE Return(Jstr(TextOf(out.val)))

\* GetInfoResume falling back to the raw text when it does not parse.
GetInfoResumeLenient(rq, out) ==
    IF out.kind = "raise" THEN Except("Error fetching info for ", rq.symbol, out.exc)
    ELSE LET p == JsonLoads(out.val) IN
         IF p.ok THEN Return(p.val) ELSE Return(Jstr(TextOf(out.val)))

GetInfoResume(rq, out) ==
    IF out.kind = "raise" THEN Except("Error fetching info for ", rq.symbol, out.exc)
    ELSE LET p == JsonLoads(out.val) IN
         IF p.ok THEN Return(p.val)
         ELSE Except("Error fetching info for ", rq.symbol, JSONDecodeError(p.msg))

\* GetNewsCall with the count clamped to at least 1.
GetNewsCallClamped(rq) ==
    LET n == BindInt("count", rq.count, DefaultCount).val IN
    Call("get_ticker_news", <<rq.symbol, IF n < 1 THEN 1 ELSE n>>)

GetNewsCall(rq) ==
    Call("get_ticker_news", <<rq.symbol, BindInt("count", rq.count, DefaultCount).val>>)

GetNewsResume(rq, out) ==
    IF out.kind = "raise" THEN Except("Error fetching news for ", rq.symbol, out.exc)
    ELSE Return(out.val)

SearchCall(rq) ==
    Call("search_yahoo_finance",
         <<BindRequiredStr("q", rq.q).val, BindInt("count", rq.count, DefaultCount).val>>)

SearchResume(rq, out) ==
    IF out.kind = "raise"
    THEN Except("Error searching for ", BindRequiredStr("q", rq.q).val, out.exc)
    ELSE Return(out.val)

\* PriceHistoryCall with period and interval checked against the documented
\* tokens, the default standing in for any other.
PriceHistoryCallChecked(rq) ==
    LET p == BindStr("period", rq.period, DefaultPeriod).val
        i == BindStr("interval", rq.interval, DefaultInterval).val
    IN Call("get_price_history",
            <<rq.symbol,
              IF p \in {"1d", "5d", "1mo", "3mo", "6mo", "1y", "2y", "5y", "10y", "ytd", "max"}
              THEN p ELSE DefaultPeriod,
              IF i \in {"1m", "2m", "5m", "15m", "30m", "60m", "90m", "1h", "1d", "5d",
                        "1wk", "1mo", "3mo"}
              THEN i ELSE DefaultInterval>>)

PriceHistoryCall(rq) ==
    Call("get_price_history",
         <<rq.symbol, BindStr("period", rq.period, DefaultPeriod).val,
           BindStr("interval", rq.interval, DefaultInterval).val>>)

PriceHistoryResume(rq, out) ==
    IF out.kind = "raise"
    THEN Except("Error fetching price history for ", rq.symbol, out.exc)
    ELSE Return(out.val)

\* The route table.
HandlerCall(rq) ==
    CASE rq.route = "ticker" -> GetInfoCall(rq)
      [] rq.route = "news" -> GetNewsCall(rq)
      [] rq.route = "search" -> SearchCall(rq)
      [] rq.route = "price-history" -> PriceHistoryCall(rq)

HandlerResume(rq, out) ==
    CASE rq.route = "ticker" -> GetInfoResume(rq, out)
      [] rq.route = "news" -> GetNewsResume(rq, out)
      [] rq.route = "search" -> SearchResume(rq, out)
      [] rq.route = "price-history" -> PriceHistoryResume(rq, out)

Init ==
    /\ pc = [r \in Reqs |-> "idle"]
    /\ req = [r \in Reqs |-> NoReq]
    /\ calls = [r \in Reqs |-> <<>>]
    /\ outcome = [r \in Reqs |-> NoOutcome]
    /\ resp = [r \in Reqs |-> NoResp]
    /\ log = {}

\* GET /health: no await, the task runs to its response in one step.
Health(r, rq) ==
    /\ pc[r] = "idle"
    /\ rq.route = "health"
    /\ req' = [req EXCEPT ![r] = rq]
    /\ resp' = [resp EXCEPT ![r] = HealthCheck]
    /\ pc' = [pc EXCEPT ![r] = "done"]
    /\ UNCHANGED <<calls, outcome, log>>

\* A request the routing layer rejects: the handler is never entered.
Reject(r, rq) ==
    /\ pc[r] = "idle"
    /\ rq.route # "health"
    /\ ValidationErrors(rq) # <<>>
    /\ req' = [req EXCEPT ![r] = rq]
    /\ resp' = [resp EXCEPT ![r] = ValidationResponse(ValidationErrors(rq))]
    /\ pc' = [pc EXCEPT ![r] = "done"]
    /\ UNCHANGED <<calls, outcome, log>>

\* The handler runs up to its await: the provider call is issued and the
\* task suspends.
Dispatch(r, rq) ==
    /\ pc[r] = "idle"
    /\ rq.route # "health"
    /\ ValidationErrors(rq) = <<>>
    /\ req' = [req EXCEPT ![r] = rq]
    /\ calls' = [calls EXCEPT ![r] = Append(@, HandlerCall(rq))]
    /\ pc' = [pc EXCEPT ![r] = "awaiting"]
    /\ UNCHANGED <<outcome, resp, log>>

\* The provider call of r completes, with a value or a failure.
ProviderComplete(r, op, out) ==
    /\ pc[r] = "awaiting"
    /\ calls[r][Len(calls[r])].op = op
    /\ outcome' = [outcome EXCEPT ![r] = out]
    /\ pc' = [pc EXCEPT ![r] = "ready"]
    /\ UNCHANGED <<req, calls, resp, log>>

\* Awaited behind a process-wide limiter: a task that resumes while another
\* request is in flight is refused.
AwaitedLimited(r) ==
    IF \E o \in Reqs \ {r} : pc[o] \in {"awaiting", "ready"}
    THEN Raised(Exc("RuntimeError", 0, "too many requests in flight"))
    ELSE outcome[r]

\* The outcome the resumed task of r sees at its await.
Awaited(r) == outcome[r]

\* Runnable when the provider call blocks the thread instead of suspending the
\* task: nothing runs while any call is outstanding.
RunnableBlocking(r) == pc[r] = "ready" /\ \A o \in Reqs \ {r} : pc[o] # "awaiting"

\* The event loop may resume the task of r.
Runnable(r) == pc[r] = "ready"

\* Resume with one retry of the provider call after a failure.
ResumeRetry(r) ==
    /\ pc[r] = "ready"
    /\ IF outcome[r].kind = "raise" /\ Len(calls[r]) < 2
       THEN /\ calls' = [calls EXCEPT ![r] = Append(@, HandlerCall(req[r]))]
            /\ pc' = [pc EXCEPT ![r] = "awaiting"]
            /\ UNCHANGED <<req, outcome, resp, log>>
       ELSE /\ LET res == HandlerResume(req[r], outcome[r]) IN
               /\ resp' = [resp EXCEPT ![r] = res.resp]
               /\ log' = log \cup res.logged
            /\ pc' = [pc EXCEPT ![r] = "done"]
            /\ UNCHANGED <<req, calls, outcome>>

\* The task resumes after its await and runs to its response.
Resume(r) ==
    /\ Runnable(r)
    /\ LET res == HandlerResume(req[r], Awaited(r)) IN
       /\ resp' = [resp EXCEPT ![r] = res.resp]
       /\ log' = log \cup res.logged
    /\ pc' = [pc EXCEPT ![r] = "done"]
    /\ UNCHANGED <<req, calls, outcome>>

\* The outcomes of op among the returned texts Texts and the failures Fails
\* (the other operations return their one value).
OutcomesAmong(op, Texts, Fails) ==
    {out \in ProviderOutcomes(op) :
        IF out.kind = "raise" THEN out.exc \in Fails
        ELSE op = "get_ticker_info" => out.val \in Texts}

\* One step of the gateway: a request of RS arrives and runs to its response
\* or to its await, a provider call completes, or a task resumes.
Step(RS, Texts, Fails) ==
    \E r \in Reqs :
        \/ \E rq \in RS : Health(r, rq)
        \/ \E rq \in RS : Reject(r, rq)
        \/ \E rq \in RS : Dispatch(r, rq)
        \/ \E op \in ProviderOps : \E out \in OutcomesAmong(op, Texts, Fails) :
               ProviderComplete(r, op, out)
        \/ Resume(r)

Next == Step(Requests, InfoTexts, ProviderFailures)

Spec == Init /\ [][Next]_vars

\* One request of each route with its defaults, and one the routing layer
\* refuses: what progress depends on is the route and the kind of outcome, not
\* the parameter values.
RouteRequests ==
    {rq \in Requests : rq.count = <<>> /\ rq.period = <<>> /\ rq.interval = <<>>}

FairNext ==
    Step(RouteRequests, {InfoObjectText, <<Junk("Ticker not found")>>},
         {Exc("ValueError", 0, "No data found, symbol may be delisted")})

\* The event loop resumes every task that stays runnable; nothing obliges a
\* provider call to complete.
FairSpec == Init /\ [][FairNext]_vars /\ \A r \in Reqs : WF_vars(Resume(r))

(***************************************************************************)
(* Properties.                                                             *)
(***************************************************************************)
Done(r) == pc[r] = "done"
Failed(r) == outcome[r].kind = "raise"
Detail(d) == Jobj(<< <<"detail", Jstr(d)>> >>)
ProviderRoutes == {"ticker", "news", "search", "price-history"}

\* C1: a request of a provider-backed handler whose provider call failed is
\* answered with status 500 and the body {"detail": str(failure)}, whatever the
\* kind of the failure, a failure carrying a status code of its own included.
C1_FailureIs500 ==
    \A r \in Reqs :
        (Done(r) /\ req[r].route \in ProviderRoutes /\ Failed(r)) =>
            /\ resp[r].status = 500
            /\ resp[r].body = Detail(Str(outcome[r].exc))

C1_Witness ==
    \E r \in Reqs :
        /\ Done(r) /\ Failed(r)
        /\ outcome[r].exc.cls = "HTTPException"
        /\ resp[r] = Response(500, Detail("404: Not Found"))

\* C2: a ticker request whose provider call returned JSON text is answered with
\* status 200 and the value the text parses to, not the text as a JSON string;
\* the text {"symbol":"AAPL","price":150.0} gives that object.
C2_TickerBodyIsParsed ==
    \A r \in Reqs :
        (Done(r) /\ req[r].route = "ticker" /\ outcome[r].kind = "return"
            /\ JsonLoads(outcome[r].val).ok) =>
            /\ resp[r].status = 200
            /\ resp[r].body = JsonLoads(outcome[r].val).val
            /\ resp[r].body # Jstr(TextOf(outcome[r].val))
            /\ outcome[r].val = InfoObjectText =>
                 resp[r].body = Jobj(<< <<"symbol", Jstr("AAPL")>>,
                                        <<"price", Jnum("150.0")>> >>)

C2_Witness ==
    \E r \in Reqs :
        /\ Done(r) /\ req[r].route = "ticker"
        /\ outcome[r] = Returned(InfoObjectText)
        /\ resp[r].status = 200 /\ resp[r].body.type = "object"

\* C3: a health request is answered 200 {"status":"ok"} with no provider call
\* of its own, whatever the other requests' provider calls are doing, and it
\* can be served in every state.
C3_HealthOk ==
    \A r \in Reqs :
        /\ (Done(r) /\ req[r].route = "health") =>
              /\ resp[r] = Response(200, Jobj(<< <<"status", Jstr("ok")>> >>))
              /\ calls[r] = <<>>
        /\ pc[r] = "idle" =>
              ENABLED Health(r, Request("health", "", <<>>, <<>>, <<>>, <<>>))

C3_Witness ==
    \E r \in Reqs : \E o \in Reqs \ {r} :
        /\ Done(r) /\ req[r].route = "health"
        /\ Failed(o)
        /\ resp[r].status = 200

\* A request the routing layer must refuse: search without q, or news/search
\* with a count that is no integer.
BadInput(rq) ==
    \/ rq.route = "search" /\ rq.q = <<>>
    \/ rq.route \in {"news", "search"} /\ rq.count # <<>> /\ ~ParseInt(rq.count[1]).ok

\* C4 as the spec words it: such a request is answered 400.
C4_RejectedWith400 ==
    \A r \in Reqs : (Done(r) /\ BadInput(req[r])) => resp[r].status = 400

\* C4: such a request is answered 422 by the routing layer, with no provider
\* call, no handler error event and no 500.
C4_RejectedWith422 ==
    \A r \in Reqs :
        (pc[r] # "idle" /\ BadInput(req[r])) =>
            /\ Done(r)
            /\ resp[r].status = 422
            /\ resp[r].body.type = "object"
            /\ calls[r] = <<>>
            /\ outcome[r] = NoOutcome

C4_Witness ==
    \E r \in Reqs : \E o \in Reqs :
        /\ Done(r) /\ req[r].route = "search" /\ req[r].q = <<>> /\ resp[r].status = 422
        /\ Done(o) /\ req[o].route = "news" /\ req[o].count = << <<"x">> >>
        /\ resp[o].status = 422

\* C5: a price-history request calls get_price_history with the symbol, the
\* period as sent ("1y" when absent) and the interval as sent ("1d" when
\* absent); it is never refused by the gateway, and a provider failure is
\* answered 500.
C5_PriceHistoryVerbatim ==
    \A r \in Reqs :
        (pc[r] # "idle" /\ req[r].route = "price-history") =>
            /\ calls[r] = <<Call("get_price_history",
                   <<req[r].symbol,
                     IF req[r].period = <<>> THEN "1y" ELSE req[r].period[1],
                     IF req[r].interval = <<>> THEN "1d" ELSE req[r].interval[1]>>)>>
            /\ Done(r) => resp[r].status \in {200, 500}
            /\ (Done(r) /\ Failed(r)) => resp[r].status = 500
            /\ (Done(r) /\ ~Failed(r)) => resp[r].status = 200

C5_Witness ==
    \E r \in Reqs : \E o \in Reqs :
        /\ Done(r) /\ req[r].route = "price-history"
        /\ req[r].period = <<"bogus">> /\ Failed(r) /\ resp[r].status = 500
        /\ calls[r][1].args = <<"aapl", "bogus", "1m">>
        /\ req[o].route = "price-history" /\ req[o].period = <<>> /\ req[o].interval = <<>>
        /\ pc[o] = "awaiting"

\* The integer a count stands for.
CountOf(raw) ==
    CASE raw = <<"1", "0">> -> 10
      [] raw = <<"-", "3">> -> 0 - 3
      [] OTHER -> ParseInt(raw).val

\* C6: a news request with an integer count N, or none, calls get_ticker_news
\* with the symbol as sent and N (10 when absent); a request without count and
\* one with count=10 make the same call and, on the same outcome, get the same
\* response.
C6_NewsCountVerbatim ==
    /\ \A r \in Reqs :
          (pc[r] # "idle" /\ req[r].route = "news" /\ ~BadInput(req[r])) =>
              calls[r] = <<Call("get_ticker_news",
                     <<req[r].symbol,
                       IF req[r].count = <<>> THEN 10 ELSE CountOf(req[r].count[1])>>)>>
    /\ \A r, o \in Reqs :
          (/\ req[r].route = "news" /\ req[o].route = "news"
           /\ req[r].symbol = req[o].symbol
           /\ req[r].count = <<>> /\ req[o].count = << <<"1", "0">> >>
           /\ pc[r] # "idle" /\ pc[o] # "idle") =>
              /\ calls[r] = calls[o]
              /\ (Done(r) /\ Done(o) /\ outcome[r] = outcome[o]) => resp[r] = resp[o]

C6_Witness ==
    \E r \in Reqs : \E o \in Reqs :
        /\ req[r].route = "news" /\ req[r].count = <<>> /\ Done(r)
        /\ req[o].route = "news" /\ req[o].count = << <<"-", "3">> >> /\ Done(o)
        /\ calls[o][1].args = <<"aapl", 0 - 3>>
        /\ calls[r][1].args = <<"aapl", 10>>

\* C7: a request whose own provider call has completed gets its response,
\* however long the provider calls of other requests stay outstanding.
C7_NoBlocking ==
    \A r \in Reqs : (pc[r] = "ready") ~> Done(r)

C7_Witness ==
    \E r \in Reqs : \E o \in Reqs \ {r} :
        /\ pc[r] = "awaiting"
        /\ Done(o) /\ outcome[o].kind # "none"

\* C8: the response of a request is the one its own parameters and the outcome
\* of its own provider call give: two requests with the same parameters and
\* the same outcome have the same calls and the same response, whatever ran
\* beside them and in whatever order.
C8_Independent ==
    /\ \A r \in Reqs :
          (Done(r) /\ outcome[r].kind # "none") =>
              resp[r] = HandlerResume(req[r], outcome[r]).resp
    /\ \A r, o \in Reqs :
          (Done(r) /\ Done(o) /\ req[r] = req[o] /\ outcome[r] = outcome[o]) =>
              (resp[r] = resp[o] /\ calls[r] = calls[o])

C8_Witness ==
    \E r \in Reqs : \E o \in Reqs \ {r} :
        /\ Done(r) /\ Done(o) /\ req[r] = req[o]
        /\ outcome[r] = outcome[o] /\ outcome[r].kind = "return"
        /\ resp[r] = resp[o] /\ resp[r].status = 200

\* The provider operation of a route.
RouteOp(route) ==
    CASE route = "ticker" -> "get_ticker_info"
      [] route = "news" -> "get_ticker_news"
      [] route = "search" -> "search_yahoo_finance"
      [] route = "price-history" -> "get_price_history"

\* C9: a request a provider-backed handler accepted has made exactly one
\* provider call, to the operation of its route, from the moment the handler
\* suspends: before any response, and with no further call after a failure,
\* which is answered 500.
C9_ExactlyOneCall ==
    \A r \in Reqs :
        (pc[r] # "idle" /\ req[r].route \in ProviderRoutes /\ ~BadInput(req[r])) =>
            /\ Len(calls[r]) = 1
            /\ calls[r][1].op = RouteOp(req[r].route)
            /\ ~Done(r) => resp[r] = NoResp
            /\ (Done(r) /\ Failed(r)) => resp[r].status = 500

C9_Witness ==
    \E r \in Reqs :
        /\ Done(r) /\ Failed(r) /\ req[r].route = "search"
        /\ Len(calls[r]) = 1 /\ resp[r].status = 500

\* C10: a ticker request whose provider call returned text that is not JSON is
\* answered 500 with the parse error's description, never 200 with the text;
\* nothing is parsed or answered while the call is outstanding.
C10_UnparsableIs500 ==
    \A r \in Reqs :
        /\ (Done(r) /\ req[r].route = "ticker" /\ outcome[r].kind = "return"
              /\ ~JsonLoads(outcome[r].val).ok) =>
              /\ resp[r].status = 500
              /\ resp[r].body = Detail(JsonLoads(outcome[r].val).msg)
              /\ outcome[r].val = <<Junk("Ticker not found")>> =>
                    resp[r].body = Detail("Expecting value")
              /\ outcome[r].val = <<Punct("{"), StrTok("symbol"), StrTok("AAPL"), Punct("}")>> =>
                    resp[r].body = Detail("Expecting ':' delimiter")
        /\ (req[r].route = "ticker" /\ pc[r] = "awaiting") =>
              (resp[r] = NoResp /\ outcome[r] = NoOutcome)

C10_Witness ==
    \E r \in Reqs :
        /\ Done(r) /\ req[r].route = "ticker"
        /\ outcome[r] = Returned(<<Junk("Ticker not found")>>)
        /\ resp[r].status = 500
====
